---- MODULE Spec2Model ----
(***************************************************************************)
(* A model of two units of dspace-angular:                                 *)
(*   - AuthService (src/src/app/core/auth/auth.service.ts): the in-memory  *)
(*     authenticated flag, the token kept in cookie storage, the redirect  *)
(*     URL kept in the store and the route-tracking subscription;          *)
(*   - QualityAssuranceEventsComponent (src/unnamed/part_001): the page    *)
(*     of event view-models, the fetch pipelines and the event actions.    *)
(*   - JournalVolumeSearchResultListElementComponent, as its test          *)
(*     (src/unnamed/part_000) sets it up and renders it.                   *)
(* SpecAuth runs the AuthService alone, SpecQA the component alone.        *)
(***************************************************************************)
EXTENDS Integers, Sequences, FiniteSets, TLC

VARIABLES
  \* ---- AuthService ----
  authenticated,       \* AuthService._authenticated
  storeAuthenticated,  \* the store's isAuthenticated selector value
  storage,             \* what CookieService.get(TOKENITEM) returns
  redirectUrl,         \* the store's auth.redirectUrl
  routerState,         \* the store's router state (url, or undefined)
  navigated,           \* router.navigate calls of the last operation
  dispatched,          \* SetRedirectUrlAction payloads dispatched by the last operation
  header,              \* value returned by the last getAuthHeader()
  checkResult,         \* outcome of the last checkAuthenticationToken()
  login,               \* the authenticate() request and its outcome
  logout,              \* the logout() request and its outcome
  nRequests,           \* requests issued through AuthRequestService
  op,                  \* the last AuthService operation: name, url argument,
                       \* and the redirect URL it found
  \* ---- QualityAssuranceEventsComponent ----
  vms,                 \* the QualityAssuranceEventData objects, by reference
  eventsUpdated,       \* eventsUpdated$.value: a list of references
  totalElements,       \* totalElements$.value
  isEventPageLoading,  \* isEventPageLoading.value
  topic,               \* this.topic
  showTopic,           \* this.showTopic
  paginationOptions,   \* what paginationService.getFindListOptions last emitted
  fetches,             \* the getQualityAssuranceEvents() pipelines, in call order
  calls,               \* the executeAction calls, in call order
  lifecycle,           \* "constructed", "initialised" or "destroyed"
  modal,               \* the reason modal openModal is waiting for, if any
  qlog,                \* what the last step of the component did
  \* ---- JournalVolumeSearchResultListElementComponent and its test bed ----
  appConfig,           \* the value provided for APP_CONFIG, if any
  fixture,             \* "none", "configured", "created" or "stable"
  object,              \* journalVolumeListElementComponent.object, if set
  showThumbnails,      \* journalVolumeListElementComponent.showThumbnails, if set
  debugElement         \* the elements fixture.debugElement.query finds

authVars == <<authenticated, storeAuthenticated, storage, redirectUrl, routerState,
              navigated, dispatched, header, checkResult, login, logout, nRequests, op>>

qaVars == <<vms, eventsUpdated, totalElements, isEventPageLoading, topic, showTopic,
            paginationOptions, fetches, calls, lifecycle, modal, qlog>>

jvVars == <<appConfig, fixture, object, showThumbnails, debugElement>>

vars == <<authVars, qaVars, jvVars>>

----------------------------------------------------------------------------
(* Bounds *)
MaxRequests == 2   \* login and logout requests issued
NEvents == 4       \* raw events the REST service knows
MaxPage == 2       \* events on a page
MaxCalls == 2      \* executeAction calls
MaxOptions == 2    \* pagination options

----------------------------------------------------------------------------
(* JavaScript values *)

\* the undefined value where a string is expected
Undefined == "<undefined>"

LOGIN_ROUTE == "/login"

Urls == {"/", LOGIN_ROUTE, "/home"}

\* values of auth.redirectUrl
RedirectValues == Urls \cup {"", Undefined}

\* values of the router state: undefined, defined without a state, or a url
RouterUndefined == "<router undefined>"
RouterNoState == "<router without state>"
RouterStates == Urls \cup {RouterUndefined, RouterNoState}

JsUndefined == [type |-> "undefined", keys |-> {}, accessToken |-> Undefined]
JsNull == [type |-> "null", keys |-> {}, accessToken |-> Undefined]
JsObject(keys, accessToken) ==
  [type |-> "object", keys |-> keys, accessToken |-> accessToken]

\* the AuthTokenInfo objects handed to storeToken
Tokens ==
  { JsObject({}, Undefined),
    JsObject({"expires"}, Undefined),
    JsObject({"accessToken", "expires"}, ""),
    JsObject({"accessToken", "expires"}, "tokA"),
    JsObject({"accessToken"}, "tokB") }

\* empty.util: isNotEmpty of a string
isNotEmptyString(s) == s # Undefined /\ s # ""

\* empty.util: isNotEmpty of an object value
isNotEmpty(v) == v.type = "object" /\ v.keys # {}

\* empty.util: isNotNull
isNotNull(v) == v.type # "null"

\* empty.util: isNotUndefined of the router state and of its state
isNotUndefinedRouter(rs) == rs # RouterUndefined
isNotUndefinedRouterState(rs) == rs # RouterNoState

----------------------------------------------------------------------------
(* AuthService: pure reads *)

getToken_NoAccessTokenCheck ==
  IF isNotEmpty(storage) /\ "accessToken" \in storage.keys
  THEN storage ELSE JsNull

getToken_NoCheck ==
  IF storage.type = "object" THEN storage ELSE JsNull

getToken ==
  IF isNotEmpty(storage) /\ "accessToken" \in storage.keys
     /\ isNotEmptyString(storage.accessToken)
  THEN storage ELSE JsNull

getAuthHeader ==
  IF authenticated /\ isNotNull(getToken)
  THEN "Bearer " \o getToken.accessToken ELSE ""

NoCheck == [ok |-> FALSE, token |-> JsUndefined, called |-> FALSE]

\* the outcome of checkAuthenticationToken: Observable.of(token) or Observable.throw(false)
checkAuthenticationTokenOutcome ==
  LET token == getToken
  IN IF isNotEmpty(token) THEN [ok |-> TRUE, token |-> token, called |-> TRUE]
                          ELSE [ok |-> FALSE, token |-> JsUndefined, called |-> TRUE]

\* a request of AuthRequestService: its state, the status.authenticated the
\* backend answered with, and what the returned observable yielded
NoCall == [state |-> "idle", status |-> "none", outcome |-> "none"]
PendingCall == [state |-> "pending", status |-> "none", outcome |-> "none"]

\* status.authenticated of the backend's answer
Status(b) == IF b THEN "authenticated" ELSE "not authenticated"

\* the record of an operation; pre is the redirect URL it found
Op(name, url, pre) == [name |-> name, url |-> url, pre |-> pre]

----------------------------------------------------------------------------
(* AuthService: initial state, after the constructor *)

AuthInit ==
  /\ authenticated = FALSE
  /\ storeAuthenticated = FALSE
  /\ storage = JsUndefined
  /\ redirectUrl = Undefined
  /\ routerState = RouterUndefined
  /\ navigated = <<>>
  /\ dispatched = <<>>
  /\ header = ""
  /\ checkResult = NoCheck
  /\ login = NoCall
  /\ logout = NoCall
  /\ nRequests = 0
  /\ op = Op("constructor", "", "")

\* navigated, dispatched, header and checkResult record the last operation only
NoCalls == navigated' = <<>> /\ dispatched' = <<>>
NoReturn == header' = "" /\ checkResult' = NoCheck
Quiet == NoCalls /\ NoReturn

----------------------------------------------------------------------------
(* AuthService: operations *)

\* the store's isAuthenticated selector emits a new value
StoreAuthenticated(b) ==
  /\ b # storeAuthenticated
  /\ storeAuthenticated' = b
  /\ authenticated' = b
  /\ op' = Op("storeAuthenticated", "", "")
  /\ Quiet
  /\ UNCHANGED <<storage, redirectUrl, routerState, login,
                 logout, nRequests>>

\* the reducer's handling of SetRedirectUrlAction
SetRedirectUrlReducer(value) == redirectUrl' = value

\* the route-tracking subscription of the constructor
RouteChange_ClearOnLogin(rs) ==
  /\ routerState' = rs
  /\ IF /\ isNotUndefinedRouter(rs) /\ isNotUndefinedRouterState(rs)
        /\ isNotEmptyString(redirectUrl) /\ rs # redirectUrl
     THEN /\ dispatched' = <<"">>
          /\ SetRedirectUrlReducer("")
     ELSE /\ dispatched' = <<>>
          /\ UNCHANGED redirectUrl
  /\ navigated' = <<>>
  /\ NoReturn
  /\ op' = Op("routeChange", rs, redirectUrl)
  /\ UNCHANGED <<authenticated, storeAuthenticated, storage, login, logout, nRequests>>

RouteChange_NoClear(rs) ==
  /\ routerState' = rs
  /\ Quiet
  /\ op' = Op("routeChange", rs, redirectUrl)
  /\ UNCHANGED <<authenticated, storeAuthenticated, storage, redirectUrl, login, logout, nRequests>>

RouteChange(rs) ==
  /\ routerState' = rs
  /\ IF /\ isNotUndefinedRouter(rs) /\ isNotUndefinedRouterState(rs)
        /\ rs # LOGIN_ROUTE
        /\ isNotEmptyString(redirectUrl) /\ rs # redirectUrl
     THEN /\ dispatched' = <<"">>
          /\ SetRedirectUrlReducer("")
     ELSE /\ dispatched' = <<>>
          /\ UNCHANGED redirectUrl
  /\ navigated' = <<>>
  /\ NoReturn
  /\ op' = Op("routeChange", rs, redirectUrl)
  /\ UNCHANGED <<authenticated, storeAuthenticated, storage, login, logout, nRequests>>

\* authenticate(user, password): the login request is issued
Authenticate ==
  /\ login.state = "idle"
  /\ nRequests < MaxRequests
  /\ login' = PendingCall
  /\ nRequests' = nRequests + 1
  /\ op' = Op("authenticate", "", "")
  /\ Quiet
  /\ UNCHANGED <<authenticated, storeAuthenticated, storage, redirectUrl,
                 routerState, logout>>

\* the login response: status.authenticated = b
AuthenticateResponse_AlwaysStatus(b) ==
  /\ login.state = "pending"
  /\ login' = [state |-> "idle", status |-> Status(b), outcome |-> "status"]
  /\ op' = Op("authenticateResponse", "", "")
  /\ Quiet
  /\ UNCHANGED <<authenticated, storeAuthenticated, storage, redirectUrl,
                 routerState, logout, nRequests>>

AuthenticateResponse(b) ==
  /\ login.state = "pending"
  /\ login' = [state |-> "idle", status |-> Status(b),
               outcome |-> IF b THEN "status" ELSE "Invalid email or password"]
  /\ op' = Op("authenticateResponse", "", "")
  /\ Quiet
  /\ UNCHANGED <<authenticated, storeAuthenticated, storage, redirectUrl,
                 routerState, logout, nRequests>>

CheckAuthenticationToken ==
  /\ checkResult' = checkAuthenticationTokenOutcome
  /\ header' = ""
  /\ op' = Op("checkAuthenticationToken", "", "")
  /\ NoCalls
  /\ UNCHANGED <<authenticated, storeAuthenticated, storage, redirectUrl,
                 routerState, login, logout, nRequests>>

Create_Nothing ==
  /\ op' = Op("create", "", "")
  /\ Quiet
  /\ UNCHANGED <<authenticated, storeAuthenticated, storage, redirectUrl,
                 routerState, login, logout, nRequests>>

Create ==
  /\ authenticated' = TRUE
  /\ op' = Op("create", "", "")
  /\ Quiet
  /\ UNCHANGED <<storeAuthenticated, storage, redirectUrl, routerState, login, logout, nRequests>>

\* logout(): the logout request is issued
Logout ==
  /\ logout.state = "idle"
  /\ nRequests < MaxRequests
  /\ logout' = PendingCall
  /\ nRequests' = nRequests + 1
  /\ op' = Op("logout", "", "")
  /\ Quiet
  /\ UNCHANGED <<authenticated, storeAuthenticated, storage, redirectUrl,
                 routerState, login>>

\* the logout response: status.authenticated = b
LogoutResponse_Inverted(b) ==
  /\ logout.state = "pending"
  /\ logout' = [state |-> "idle", status |-> Status(b),
                outcome |-> IF b THEN "true" ELSE "Invalid email or password"]
  /\ op' = Op("logoutResponse", "", "")
  /\ Quiet
  /\ UNCHANGED <<authenticated, storeAuthenticated, storage, redirectUrl,
                 routerState, login, nRequests>>

LogoutResponse(b) ==
  /\ logout.state = "pending"
  /\ logout' = [state |-> "idle", status |-> Status(b),
                outcome |-> IF ~b THEN "true" ELSE "Invalid email or password"]
  /\ op' = Op("logoutResponse", "", "")
  /\ Quiet
  /\ UNCHANGED <<authenticated, storeAuthenticated, storage, redirectUrl,
                 routerState, login, nRequests>>

GetAuthHeader ==
  /\ header' = getAuthHeader
  /\ checkResult' = NoCheck
  /\ op' = Op("getAuthHeader", "", "")
  /\ NoCalls
  /\ UNCHANGED <<authenticated, storeAuthenticated, storage, redirectUrl,
                 routerState, login, logout, nRequests>>

StoreToken(token) ==
  /\ storage' = token
  /\ op' = Op("storeToken", "", "")
  /\ Quiet
  /\ UNCHANGED <<authenticated, storeAuthenticated, redirectUrl, routerState,
                 login, logout, nRequests>>

\* storage.remove(TOKENITEM)
removeToken_Keep == storage' = storage

removeToken == storage' = JsUndefined

RemoveToken ==
  /\ removeToken
  /\ op' = Op("removeToken", "", "")
  /\ Quiet
  /\ UNCHANGED <<authenticated, storeAuthenticated, redirectUrl, routerState,
                 login, logout, nRequests>>

\* the log-out effect: it subscribes to logout(); when logout() yields true
\* the token is removed and the store's isAuthenticated selector emits false,
\* which the subscription of the constructor copies to the flag
LogOutEffect(b) ==
  /\ logout.state = "pending"
  /\ logout' = [state |-> "idle", status |-> Status(b),
                outcome |-> IF ~b THEN "true" ELSE "Invalid email or password"]
  /\ IF ~b
     THEN /\ removeToken
          /\ storeAuthenticated' = FALSE
          /\ authenticated' = FALSE
     ELSE UNCHANGED <<storage, storeAuthenticated, authenticated>>
  /\ op' = Op("logoutResponse", "", "")
  /\ Quiet
  /\ UNCHANGED <<redirectUrl, routerState, login, nRequests>>

RedirectToPreviousUrl_KeepUrl ==
  /\ IF isNotEmptyString(redirectUrl)
     THEN /\ dispatched' = <<>>
          /\ UNCHANGED redirectUrl
          /\ navigated' = <<redirectUrl>>
     ELSE /\ dispatched' = <<>>
          /\ UNCHANGED redirectUrl
          /\ navigated' = <<"/">>
  /\ NoReturn
  /\ op' = Op("redirectToPreviousUrl", "", redirectUrl)
  /\ UNCHANGED <<authenticated, storeAuthenticated, storage, routerState, login, logout, nRequests>>

RedirectToPreviousUrl ==
  /\ IF isNotEmptyString(redirectUrl)
     THEN /\ dispatched' = <<Undefined>>
          /\ SetRedirectUrlReducer(Undefined)
          /\ navigated' = <<redirectUrl>>
     ELSE /\ dispatched' = <<>>
          /\ UNCHANGED redirectUrl
          /\ navigated' = <<"/">>
  /\ NoReturn
  /\ op' = Op("redirectToPreviousUrl", "", redirectUrl)
  /\ UNCHANGED <<authenticated, storeAuthenticated, storage, routerState, login, logout, nRequests>>

\* setRedirectUrl(value), as the authentication guard calls it
SetRedirectUrl(value) ==
  /\ dispatched' = <<value>>
  /\ SetRedirectUrlReducer(value)
  /\ navigated' = <<>>
  /\ NoReturn
  /\ op' = Op("setRedirectUrl", value, "")
  /\ UNCHANGED <<authenticated, storeAuthenticated, storage, routerState, login, logout, nRequests>>

AuthNext ==
  \/ \E b \in BOOLEAN : StoreAuthenticated(b)
  \/ \E rs \in RouterStates : RouteChange(rs)
  \/ Authenticate
  \/ \E b \in BOOLEAN : AuthenticateResponse(b)
  \/ CheckAuthenticationToken
  \/ Create
  \/ Logout
  \/ \E b \in BOOLEAN : LogoutResponse(b)
  \/ GetAuthHeader
  \/ \E token \in Tokens : StoreToken(token)
  \/ RemoveToken
  \/ RedirectToPreviousUrl
  \/ \E value \in RedirectValues : SetRedirectUrl(value)

\* the AuthService with logout() called by the log-out effect
SessionNext ==
  \/ \E b \in BOOLEAN : StoreAuthenticated(b)
  \/ \E rs \in RouterStates : RouteChange(rs)
  \/ Authenticate
  \/ \E b \in BOOLEAN : AuthenticateResponse(b)
  \/ CheckAuthenticationToken
  \/ Create
  \/ Logout
  \/ \E b \in BOOLEAN : LogOutEffect(b)
  \/ GetAuthHeader
  \/ \E token \in Tokens : StoreToken(token)
  \/ RemoveToken
  \/ RedirectToPreviousUrl
  \/ \E value \in RedirectValues : SetRedirectUrl(value)

----------------------------------------------------------------------------
(* QualityAssuranceEventsComponent: values *)

Range(s) == {s[i] : i \in 1..Len(s)}

\* null where a string is expected
Null == "<null>"

\* null where a number is expected
NullNumber == -1

\* a value that JavaScript takes as true in a condition
Truthy(s) == s \notin {Undefined, Null, ""}

\* an Item, or null
NullItem == [isNull |-> TRUE, id |-> Undefined, handle |-> Undefined]
ItemOf(id, handle) == [isNull |-> FALSE, id |-> id, handle |-> handle]

\* a completed RemoteData
Succeeded(payload) == [hasSucceeded |-> TRUE, payload |-> payload]
Failed == [hasSucceeded |-> FALSE, payload |-> NullItem]

\* the raw QualityAssuranceEventObject records of the REST service
Events == 1..NEvents
EventId(e) == "event-" \o ToString(e)
EventTitle(e) == "title-" \o ToString(e)
MessageTitle(e) == "project-title-" \o ToString(e)

\* the first completed RemoteData of event.related: an item with an id, a
\* success without payload, a failure, or an item with an empty id
RelatedRD(e) ==
  CASE e % 4 = 1 -> Succeeded(ItemOf("project-" \o ToString(e), "handle-" \o ToString(e)))
    [] e % 4 = 2 -> Succeeded(NullItem)
    [] e % 4 = 3 -> Failed
    [] OTHER -> Succeeded(ItemOf("", "handle-" \o ToString(e)))

\* the first completed RemoteData of event.target
TargetRD(e) ==
  IF e % 2 = 1 THEN Succeeded(ItemOf("item-" \o ToString(e), "item-handle-" \o ToString(e)))
               ELSE Failed

\* the pages the REST service returns: lists of distinct events
Pages ==
  UNION { { p \in [1..n -> Events] : \A i, j \in 1..n : i # j => p[i] # p[j] }
          : n \in 0..MaxPage }

\* the completed RemoteData of a page request
PageResponses ==
  { [hasSucceeded |-> FALSE, totalElements |-> 0, page |-> <<>>] } \cup
  { [hasSucceeded |-> TRUE, totalElements |-> t, page |-> p] :
      p \in Pages, t \in 0..(MaxPage + 1) }

\* the topic ids of the route, as lists of characters
TopicIds == { <<"E", "!", "P">>, <<"!", "A", "!", "!">> }

\* id.replace('!', '/'): the first occurrence only
ReplaceTopic_FirstOnly(id) ==
  [i \in 1..Len(id) |->
     IF id[i] = "!" /\ (\A j \in 1..(i - 1) : id[j] # "!") THEN "/" ELSE id[i]]

\* id.replace(/!/g, '/')
ReplaceTopic(id) == [i \in 1..Len(id) |-> IF id[i] = "!" THEN "/" ELSE id[i]]

Actions == {"ACCEPTED", "REJECTED"}

\* references to view-model objects: the pipeline that built it, the place on its page
FetchIds == 1..(MaxCalls + 1)
Refs == FetchIds \X (1..MaxPage)
NoRef == <<0, 0>>
NoVm == [event |-> 0]

PageRequest(t, options) ==
  [type |-> "getEventsByTopic", topic |-> t, options |-> options,
   action |-> Null, event |-> 0, reason |-> Null, id |-> Null, projectId |-> Null]

PatchRequest(action, e, reason) ==
  [type |-> "patchEvent", topic |-> <<>>, options |-> 0,
   action |-> action, event |-> e, reason |-> reason, id |-> Null, projectId |-> Null]

\* boundProject(eventData.id, projectId) and removeProject(eventData.id)
BoundProjectRequest(id, projectId) ==
  [type |-> "boundProject", topic |-> <<>>, options |-> 0,
   action |-> Null, event |-> 0, reason |-> Null, id |-> id, projectId |-> projectId]

RemoveProjectRequest(id) ==
  [type |-> "removeProject", topic |-> <<>>, options |-> 0,
   action |-> Null, event |-> 0, reason |-> Null, id |-> id, projectId |-> Null]

\* the projectId, projectTitle and projectHandle arguments of boundProject
NoProject == [projectId |-> Null, projectTitle |-> Null, handle |-> Null]

Projects ==
  { [projectId |-> "project-A", projectTitle |-> "Project A", handle |-> "handle-A"] }

\* a getQualityAssuranceEvents() pipeline waiting for its page
NewFetch(owner) ==
  [owner |-> owner, stage |-> "page", options |-> paginationOptions, page |-> <<>>,
   related |-> <<>>, target |-> <<>>, acc |-> <<>>]

\* a pipeline that has delivered, failed or been unsubscribed
EndedFetch(owner, stage) ==
  [owner |-> owner, stage |-> stage, options |-> 0, page |-> <<>>,
   related |-> <<>>, target |-> <<>>, acc |-> <<>>]

EndedCall(kind, stage) ==
  [kind |-> kind, eventData |-> NoRef, stage |-> stage, fetch |-> 0,
   project |-> NoProject]

\* a completed RemoteData without payload, as a patch request gets it
Completed(hasSucceeded) ==
  [hasSucceeded |-> hasSucceeded, totalElements |-> 0, page |-> <<>>]

\* no modal is open
NoModal == [open |-> FALSE, action |-> Null, eventData |-> NoRef]

\* the reasons the modal offers; null when none was selected
Reasons == {Null, "reason-1"}

\* what a step did: the operation, the call and the pipeline it belongs to, the
\* eventData of the call, the response it handled, the lists put on
\* eventsUpdated$, the notifications, the REST requests issued, the number of
\* sub-resources subscribed to and of clearFindByTopicRequests calls, the
\* result the modal was closed with and the reason selected in it, the topicId
\* a route-parameter emission carried
Log(name) ==
  [op |-> name, call |-> 0, fetch |-> 0, eventData |-> NoRef,
   rd |-> Completed(FALSE), emitted |-> <<>>, notified |-> <<>>,
   requests |-> <<>>, subscribed |-> 0, cleared |-> 0,
   result |-> Null, selectedReason |-> Null, param |-> <<>>]

\* the view-model fetchEvents builds for an event once related and target resolved
BuildData_TargetDecides(e) ==
  LET targetItemRD == TargetRD(e)
      relatedItemRD == RelatedRD(e)
      data == [event |-> e, id |-> EventId(e), title |-> EventTitle(e),
               hasProject |-> FALSE, projectTitle |-> Null, projectId |-> Null,
               handle |-> Null, reason |-> Null, isRunning |-> FALSE,
               target |-> IF targetItemRD.hasSucceeded THEN targetItemRD.payload
                                                       ELSE NullItem]
  IN IF targetItemRD.hasSucceeded
     THEN [data EXCEPT !.hasProject = TRUE,
                       !.projectTitle = MessageTitle(e),
                       !.projectId = relatedItemRD.payload.id,
                       !.handle = relatedItemRD.payload.handle]
     ELSE data

BuildData(e) ==
  LET relatedItemRD == RelatedRD(e)
      targetItemRD == TargetRD(e)
      data == [event |-> e, id |-> EventId(e), title |-> EventTitle(e),
               hasProject |-> FALSE, projectTitle |-> Null, projectId |-> Null,
               handle |-> Null, reason |-> Null, isRunning |-> FALSE,
               target |-> IF targetItemRD.hasSucceeded THEN targetItemRD.payload
                                                       ELSE NullItem]
  IN IF relatedItemRD.hasSucceeded /\ Truthy(relatedItemRD.payload.id)
     THEN [data EXCEPT !.hasProject = TRUE,
                       !.projectTitle = MessageTitle(e),
                       !.projectId = relatedItemRD.payload.id,
                       !.handle = relatedItemRD.payload.handle]
     ELSE data

\* the objects something still refers to: the displayed list, the lists the
\* pipelines are assembling, the eventData of the pending calls
Roots(list, fs, cs) ==
  Range(list)
  \cup UNION { Range(fs[f].acc) : f \in 1..Len(fs) }
  \cup { cs[c].eventData : c \in 1..Len(cs) }

\* objects nothing refers to any more are dropped
Sweep(heap, roots) == [r \in Refs |-> IF r \in roots THEN heap[r] ELSE NoVm]

----------------------------------------------------------------------------
(* QualityAssuranceEventsComponent: initial state, after the constructor *)

QAInit ==
  /\ vms = [r \in Refs |-> NoVm]
  /\ eventsUpdated = <<>>
  /\ totalElements = NullNumber
  /\ isEventPageLoading = FALSE
  /\ topic = <<>>
  /\ showTopic = <<>>
  /\ paginationOptions = 1
  /\ fetches = <<>>
  /\ calls = <<>>
  /\ lifecycle = "constructed"
  /\ modal = NoModal
  /\ qlog = Log("constructor")

----------------------------------------------------------------------------
(* JournalVolumeSearchResultListElementComponent in its test bed *)

environmentUseThumbs == [browseBy |-> [showThumbnails |-> TRUE]]
enviromentNoThumbs == [browseBy |-> [showThumbnails |-> FALSE]]
Environments == {environmentUseThumbs, enviromentNoThumbs}

\* an item, as the set of the metadata fields it has
MetadataFields ==
  {"dc.title", "dc.description", "journal.title", "publicationvolume.volumeNumber"}
mockItemWithMetadata == {"dc.title", "journal.title", "publicationvolume.volumeNumber"}
mockItemWithoutMetadata == {"dc.title"}
Items == SUBSET MetadataFields

\* the template: the elements rendered for a component showing an item
Render_ThumbnailForJournals(show, item) ==
  (IF show /\ "journal.title" \in item THEN {"ds-thumbnail"} ELSE {})
  \cup (IF "journal.title" \in item THEN {"span.item-list-journal-volumes"} ELSE {})
  \cup (IF "publicationvolume.volumeNumber" \in item
        THEN {"span.item-list-journal-volume-identifiers"} ELSE {})

Render(show, item) ==
  (IF show THEN {"ds-thumbnail"} ELSE {})
  \cup (IF "journal.title" \in item THEN {"span.item-list-journal-volumes"} ELSE {})
  \cup (IF "publicationvolume.volumeNumber" \in item
        THEN {"span.item-list-journal-volume-identifiers"} ELSE {})

JvInit ==
  /\ appConfig = <<>>
  /\ fixture = "none"
  /\ object = <<>>
  /\ showThumbnails = <<>>
  /\ debugElement = {}

\* TestBed.configureTestingModule with APP_CONFIG provided as env
ConfigureTestingModule(env) ==
  /\ fixture = "none"
  /\ fixture' = "configured"
  /\ appConfig' = <<env>>
  /\ UNCHANGED <<object, showThumbnails, debugElement>>
  /\ UNCHANGED <<authVars, qaVars>>

\* TestBed.createComponent
CreateComponent ==
  /\ fixture = "configured"
  /\ fixture' = "created"
  /\ UNCHANGED <<appConfig, object, showThumbnails, debugElement>>
  /\ UNCHANGED <<authVars, qaVars>>

\* journalVolumeListElementComponent.object = item
SetObject(item) ==
  /\ fixture \in {"created", "stable"}
  /\ object' = <<item>>
  /\ UNCHANGED <<appConfig, fixture, showThumbnails, debugElement>>
  /\ UNCHANGED <<authVars, qaVars>>

\* fixture.detectChanges(): the first one runs ngOnInit, every one renders
DetectChanges ==
  /\ fixture \in {"created", "stable"}
  /\ object # <<>>
  /\ LET show == IF fixture = "created" THEN appConfig[1].browseBy.showThumbnails
                                        ELSE showThumbnails[1]
     IN /\ showThumbnails' = <<show>>
        /\ debugElement' = Render(show, object[1])
  /\ fixture' = "stable"
  /\ UNCHANGED <<appConfig, object>>
  /\ UNCHANGED <<authVars, qaVars>>

\* the test bed is reset between the tests
ResetTestingModule ==
  /\ fixture # "none"
  /\ appConfig' = <<>>
  /\ fixture' = "none"
  /\ object' = <<>>
  /\ showThumbnails' = <<>>
  /\ debugElement' = {}
  /\ UNCHANGED <<authVars, qaVars>>

JvNext ==
  \/ \E env \in Environments : ConfigureTestingModule(env)
  \/ CreateComponent
  \/ \E item \in Items : SetObject(item)
  \/ DetectChanges
  \/ ResetTestingModule

Init == AuthInit /\ QAInit /\ JvInit

----------------------------------------------------------------------------
(* QualityAssuranceEventsComponent: operations *)

\* the end of a step: the displayed list, the pipelines, calls, log and modal
\* as the step leaves them, and the objects still referred to
CommitWith(list, heap, fs, cs, log, m) ==
  /\ eventsUpdated' = list
  /\ fetches' = fs
  /\ calls' = cs
  /\ qlog' = log
  /\ modal' = m
  /\ vms' = Sweep(heap, Roots(list, fs, cs) \cup {log.eventData, m.eventData})

\* the end of a step that leaves the modal alone
Commit(list, heap, fs, cs, log) == CommitWith(list, heap, fs, cs, log, modal)

\* a list reaches the subscriber of the pipeline f: the subscriber of ngOnInit
\* (owner 0) or the one of an executeAction call; tap() has cleared the requests
Deliver(f, list, heap, fs, log) ==
  LET owner == fs[f].owner
      ended == [fs EXCEPT ![f] = EndedFetch(owner, "delivered")]
      out == [log EXCEPT !.emitted = <<list>>, !.cleared = 1]
  IN IF owner = 0
     THEN /\ isEventPageLoading' = FALSE
          /\ Commit(list, heap, ended, calls, out)
     ELSE /\ UNCHANGED isEventPageLoading
          /\ Commit(list,
                    [heap EXCEPT ![calls[owner].eventData].isRunning = FALSE],
                    ended,
                    [calls EXCEPT ![owner] = EndedCall(@.kind, "done")],
                    [out EXCEPT !.call = owner,
                                !.eventData = calls[owner].eventData])

\* an error reaches the subscriber of the pipeline f, which has no error handler
Fail(f, heap, fs, log) ==
  LET owner == fs[f].owner
  IN /\ UNCHANGED isEventPageLoading
     /\ Commit(eventsUpdated, heap,
               [fs EXCEPT ![f] = EndedFetch(owner, "error")],
               IF owner = 0 THEN calls
               ELSE [calls EXCEPT ![owner] = EndedCall(@.kind, "error")],
               IF owner = 0 THEN log ELSE [log EXCEPT !.call = owner])

NgOnInit(topicId) ==
  /\ lifecycle = "constructed"
  /\ lifecycle' = "initialised"
  /\ isEventPageLoading' = TRUE
  /\ showTopic' = ReplaceTopic(topicId)
  /\ topic' = topicId
  /\ UNCHANGED <<totalElements, paginationOptions>>
  /\ Commit(eventsUpdated, vms, Append(fetches, NewFetch(0)), calls,
            [Log("ngOnInit") EXCEPT !.fetch = Len(fetches) + 1, !.param = topicId,
               !.requests = <<PageRequest(topicId, paginationOptions)>>])
  /\ UNCHANGED <<authVars, jvVars>>

\* the route's paramMap emits again after ngOnInit: take(1) has completed and
\* unsubscribed from it, so no operator of ngOnInit's pipeline runs
ParamMapEmits(topicId) ==
  /\ lifecycle # "constructed"
  /\ UNCHANGED isEventPageLoading
  /\ Commit(eventsUpdated, vms, fetches, calls,
            [Log("paramMap") EXCEPT !.param = topicId])
  /\ UNCHANGED <<totalElements, topic, showTopic, paginationOptions, lifecycle>>
  /\ UNCHANGED <<authVars, jvVars>>

\* the pagination options change and the pending page requests stay as issued
PaginationChange_KeepRequest(options) ==
  /\ options # paginationOptions
  /\ paginationOptions' = options
  /\ Commit(eventsUpdated, vms, fetches, calls, Log("paginationChange"))
  /\ UNCHANGED <<totalElements, isEventPageLoading, topic, showTopic, lifecycle>>
  /\ UNCHANGED <<authVars, jvVars>>

\* the pagination options change: switchMap replaces the pending page requests
PaginationChange(options) ==
  /\ options # paginationOptions
  /\ paginationOptions' = options
  /\ LET waiting == { f \in 1..Len(fetches) : fetches[f].stage = "page" }
     IN Commit(eventsUpdated, vms,
               [f \in 1..Len(fetches) |->
                  IF f \in waiting THEN [fetches[f] EXCEPT !.options = options]
                                   ELSE fetches[f]],
               calls,
               [Log("paginationChange") EXCEPT
                  !.requests = [i \in 1..Cardinality(waiting) |->
                                  PageRequest(topic, options)]])
  /\ UNCHANGED <<totalElements, isEventPageLoading, topic, showTopic, lifecycle>>
  /\ UNCHANGED <<authVars, jvVars>>

\* fetchEvents(page), subscribed: every related and target is awaited
FanOut(f, page, fs) ==
  [fs EXCEPT ![f] = [@ EXCEPT !.stage = "fanout", !.options = 0, !.page = page,
                               !.related = [i \in 1..Len(page) |-> FALSE],
                               !.target = [i \in 1..Len(page) |-> FALSE]]]

\* the first completed response of the page request of pipeline f
PageResponse_FanOutOnZero(f, rd) ==
  /\ f \in 1..Len(fetches)
  /\ fetches[f].stage = "page"
  /\ LET log == [Log("pageResponse") EXCEPT !.fetch = f, !.rd = rd]
     IN IF rd.hasSucceeded
        THEN /\ totalElements' = rd.totalElements
             /\ IF rd.page # <<>>
                THEN /\ UNCHANGED isEventPageLoading
                     /\ Commit(eventsUpdated, vms, FanOut(f, rd.page, fetches), calls,
                               [log EXCEPT !.subscribed = 2 * Len(rd.page)])
                ELSE Deliver(f, <<>>, vms, fetches, log)
        ELSE /\ UNCHANGED totalElements
             /\ Fail(f, vms, fetches, log)
  /\ UNCHANGED <<topic, showTopic, paginationOptions, lifecycle>>
  /\ UNCHANGED <<authVars, jvVars>>

PageResponse_EmptyOnFailure(f, rd) ==
  /\ f \in 1..Len(fetches)
  /\ fetches[f].stage = "page"
  /\ LET log == [Log("pageResponse") EXCEPT !.fetch = f, !.rd = rd]
     IN IF rd.hasSucceeded
        THEN /\ totalElements' = rd.totalElements
             /\ IF rd.totalElements > 0
                THEN IF rd.page # <<>>
                     THEN /\ UNCHANGED isEventPageLoading
                          /\ Commit(eventsUpdated, vms, FanOut(f, rd.page, fetches), calls,
                                    [log EXCEPT !.subscribed = 2 * Len(rd.page)])
                     ELSE Fail(f, vms, fetches, log)
                ELSE Deliver(f, <<>>, vms, fetches, log)
        ELSE /\ UNCHANGED totalElements
             /\ Deliver(f, <<>>, vms, fetches, log)
  /\ UNCHANGED <<topic, showTopic, paginationOptions, lifecycle>>
  /\ UNCHANGED <<authVars, jvVars>>

PageResponse(f, rd) ==
  /\ f \in 1..Len(fetches)
  /\ fetches[f].stage = "page"
  /\ LET log == [Log("pageResponse") EXCEPT !.fetch = f, !.rd = rd]
     IN IF rd.hasSucceeded
        THEN /\ totalElements' = rd.totalElements
             /\ IF rd.totalElements > 0
                THEN IF rd.page # <<>>
                     THEN /\ UNCHANGED isEventPageLoading
                          /\ Commit(eventsUpdated, vms, FanOut(f, rd.page, fetches), calls,
                                    [log EXCEPT !.subscribed = 2 * Len(rd.page)])
                     \* from([]) completes at once and last() has nothing to emit
                     ELSE Fail(f, vms, fetches, log)
                ELSE Deliver(f, <<>>, vms, fetches, log)
        ELSE /\ UNCHANGED totalElements
             /\ Fail(f, vms, fetches, log)
  /\ UNCHANGED <<topic, showTopic, paginationOptions, lifecycle>>
  /\ UNCHANGED <<authVars, jvVars>>

\* the pipeline f with the sub-resource which of its i-th event resolved
Resolved(f, i, which) ==
  IF which = "related" THEN [fetches[f] EXCEPT !.related[i] = TRUE]
                       ELSE [fetches[f] EXCEPT !.target[i] = TRUE]

\* related or target of the i-th event of pipeline f completes resolving:
\* combineLatest emits once both have, scan appends, last() waits for all
SubResourceResolved_EmitEach(f, i, which) ==
  /\ f \in 1..Len(fetches)
  /\ fetches[f].stage = "fanout"
  /\ i \in 1..Len(fetches[f].page)
  /\ ~(IF which = "related" THEN fetches[f].related[i] ELSE fetches[f].target[i])
  /\ LET got == Resolved(f, i, which)
         both == got.related[i] /\ got.target[i]
         acc == IF both THEN Append(got.acc, <<f, i>>) ELSE got.acc
         heap == IF both THEN [vms EXCEPT ![<<f, i>>] = BuildData(got.page[i])]
                         ELSE vms
         fs == [fetches EXCEPT ![f] = [got EXCEPT !.acc = acc]]
         log == [Log("subResourceResolved") EXCEPT !.fetch = f]
     IN IF both
        THEN Deliver(f, acc, heap, fs, log)
        ELSE /\ UNCHANGED isEventPageLoading
             /\ Commit(eventsUpdated, heap, fs, calls, log)
  /\ UNCHANGED <<totalElements, topic, showTopic, paginationOptions, lifecycle>>
  /\ UNCHANGED <<authVars, jvVars>>

SubResourceResolved(f, i, which) ==
  /\ f \in 1..Len(fetches)
  /\ fetches[f].stage = "fanout"
  /\ i \in 1..Len(fetches[f].page)
  /\ ~(IF which = "related" THEN fetches[f].related[i] ELSE fetches[f].target[i])
  /\ LET got == Resolved(f, i, which)
         both == got.related[i] /\ got.target[i]
         acc == IF both THEN Append(got.acc, <<f, i>>) ELSE got.acc
         heap == IF both THEN [vms EXCEPT ![<<f, i>>] = BuildData(got.page[i])]
                         ELSE vms
         fs == [fetches EXCEPT ![f] = [got EXCEPT !.acc = acc]]
         log == [Log("subResourceResolved") EXCEPT !.fetch = f]
     IN IF Len(acc) = Len(got.page)
        THEN Deliver(f, acc, heap, fs, log)
        ELSE /\ UNCHANGED isEventPageLoading
             /\ Commit(eventsUpdated, heap, fs, calls, log)
  /\ UNCHANGED <<totalElements, topic, showTopic, paginationOptions, lifecycle>>
  /\ UNCHANGED <<authVars, jvVars>>

\* executeAction(action, eventData), eventData being an event of the displayed list
ExecuteAction(action, r) ==
  /\ lifecycle = "initialised"
  /\ Len(calls) < MaxCalls
  /\ r \in Range(eventsUpdated)
  /\ UNCHANGED isEventPageLoading
  /\ Commit(eventsUpdated, [vms EXCEPT ![r].isRunning = TRUE],
            fetches,
            Append(calls, [kind |-> "executeAction", eventData |-> r,
                           stage |-> "patch", fetch |-> 0, project |-> NoProject]),
            [Log("executeAction") EXCEPT !.call = Len(calls) + 1, !.eventData = r,
               !.requests = <<PatchRequest(action, vms[r].event, vms[r].reason)>>])
  /\ UNCHANGED <<totalElements, topic, showTopic, paginationOptions, lifecycle>>
  /\ UNCHANGED <<authVars, jvVars>>

\* the first completed response of the patch request of call c
PatchResponse_RefetchAlways(c, hasSucceeded) ==
  /\ c \in 1..Len(calls)
  /\ calls[c].stage = "patch"
  /\ UNCHANGED isEventPageLoading
  /\ Commit(eventsUpdated, vms,
            Append(fetches, NewFetch(c)),
            [calls EXCEPT ![c] = [@ EXCEPT !.stage = "refetch",
                                           !.fetch = Len(fetches) + 1]],
            [Log("patchResponse") EXCEPT !.call = c, !.rd = Completed(hasSucceeded), !.fetch = Len(fetches) + 1,
               !.eventData = calls[c].eventData,
               !.notified = <<IF hasSucceeded THEN "success" ELSE "error">>,
               !.requests = <<PageRequest(topic, paginationOptions)>>])
  /\ UNCHANGED <<totalElements, topic, showTopic, paginationOptions, lifecycle>>
  /\ UNCHANGED <<authVars, jvVars>>

PatchResponse_NoRefetch(c, hasSucceeded) ==
  /\ c \in 1..Len(calls)
  /\ calls[c].stage = "patch"
  /\ UNCHANGED isEventPageLoading
  /\ Commit(eventsUpdated, [vms EXCEPT ![calls[c].eventData].isRunning = FALSE],
            fetches,
            [calls EXCEPT ![c] = EndedCall(@.kind, "done")],
            [Log("patchResponse") EXCEPT !.call = c, !.rd = Completed(hasSucceeded),
               !.eventData = calls[c].eventData,
               !.notified = <<IF hasSucceeded THEN "success" ELSE "error">>,
               !.emitted = <<eventsUpdated>>])
  /\ UNCHANGED <<totalElements, topic, showTopic, paginationOptions, lifecycle>>
  /\ UNCHANGED <<authVars, jvVars>>

PatchResponse_KeepRunning(c, hasSucceeded) ==
  /\ c \in 1..Len(calls)
  /\ calls[c].stage = "patch"
  /\ UNCHANGED isEventPageLoading
  /\ IF hasSucceeded
     THEN Commit(eventsUpdated, vms,
                 Append(fetches, NewFetch(c)),
                 [calls EXCEPT ![c] = [@ EXCEPT !.stage = "refetch",
                                                !.fetch = Len(fetches) + 1]],
                 [Log("patchResponse") EXCEPT !.call = c, !.rd = Completed(hasSucceeded), !.fetch = Len(fetches) + 1,
                    !.eventData = calls[c].eventData,
                    !.notified = <<"success">>,
                    !.requests = <<PageRequest(topic, paginationOptions)>>])
     ELSE Commit(eventsUpdated, vms, fetches,
                 [calls EXCEPT ![c] = EndedCall(@.kind, "done")],
                 [Log("patchResponse") EXCEPT !.call = c, !.rd = Completed(hasSucceeded),
                    !.eventData = calls[c].eventData,
                    !.notified = <<"error">>,
                    !.emitted = <<eventsUpdated>>])
  /\ UNCHANGED <<totalElements, topic, showTopic, paginationOptions, lifecycle>>
  /\ UNCHANGED <<authVars, jvVars>>

PatchResponse(c, hasSucceeded) ==
  /\ c \in 1..Len(calls)
  /\ calls[c].stage = "patch"
  /\ UNCHANGED isEventPageLoading
  /\ IF hasSucceeded
     THEN Commit(eventsUpdated, vms,
                 Append(fetches, NewFetch(c)),
                 [calls EXCEPT ![c] = [@ EXCEPT !.stage = "refetch",
                                                !.fetch = Len(fetches) + 1]],
                 [Log("patchResponse") EXCEPT !.call = c, !.rd = Completed(hasSucceeded), !.fetch = Len(fetches) + 1,
                    !.eventData = calls[c].eventData,
                    !.notified = <<"success">>,
                    !.requests = <<PageRequest(topic, paginationOptions)>>])
     \* of(this.eventsUpdated$.value) reaches the subscriber at once
     ELSE Commit(eventsUpdated, [vms EXCEPT ![calls[c].eventData].isRunning = FALSE],
                 fetches,
                 [calls EXCEPT ![c] = EndedCall(@.kind, "done")],
                 [Log("patchResponse") EXCEPT !.call = c, !.rd = Completed(hasSucceeded),
                    !.eventData = calls[c].eventData,
                    !.notified = <<"error">>,
                    !.emitted = <<eventsUpdated>>])
  /\ UNCHANGED <<totalElements, topic, showTopic, paginationOptions, lifecycle>>
  /\ UNCHANGED <<authVars, jvVars>>

\* executeAction(action, eventData) called from within another handler: the
\* patch request is issued with the reason the view-model holds
ExecuteActionStep(action, r, heap, log, m) ==
  CommitWith(eventsUpdated, [heap EXCEPT ![r].isRunning = TRUE],
             fetches,
             Append(calls, [kind |-> "executeAction", eventData |-> r,
                            stage |-> "patch", fetch |-> 0, project |-> NoProject]),
             [log EXCEPT !.call = Len(calls) + 1, !.eventData = r,
                !.requests = <<PatchRequest(action, heap[r].event, heap[r].reason)>>],
             m)

\* modalChoice(action, eventData, content), eventData being an event of the
\* displayed list: executeAction at once, or openModal
ModalChoice(action, r) ==
  /\ lifecycle = "initialised"
  /\ ~modal.open
  /\ r \in Range(eventsUpdated)
  /\ UNCHANGED isEventPageLoading
  /\ IF vms[r].hasProject
     THEN /\ Len(calls) < MaxCalls
          /\ ExecuteActionStep(action, r, vms, Log("modalChoice"), modal)
     ELSE CommitWith(eventsUpdated, vms, fetches, calls,
                     [Log("modalChoice") EXCEPT !.eventData = r],
                     [open |-> TRUE, action |-> action, eventData |-> r])
  /\ UNCHANGED <<totalElements, topic, showTopic, paginationOptions, lifecycle>>
  /\ UNCHANGED <<authVars, jvVars>>

\* the modal is closed with a result, selectedReason being the reason chosen in it
ModalClosed_AnyResult(result, selectedReason) ==
  /\ modal.open
  /\ UNCHANGED isEventPageLoading
  /\ LET r == modal.eventData
         log == [Log("modalClosed") EXCEPT !.eventData = r, !.result = result,
                                          !.selectedReason = selectedReason]
     IN /\ Len(calls) < MaxCalls
        /\ ExecuteActionStep(modal.action, r,
                             [vms EXCEPT ![r].reason = selectedReason], log, NoModal)
  /\ UNCHANGED <<totalElements, topic, showTopic, paginationOptions, lifecycle>>
  /\ UNCHANGED <<authVars, jvVars>>

ModalClosed(result, selectedReason) ==
  /\ modal.open
  /\ UNCHANGED isEventPageLoading
  /\ LET r == modal.eventData
         log == [Log("modalClosed") EXCEPT !.eventData = r, !.result = result,
                                          !.selectedReason = selectedReason]
     IN IF result = "do"
        THEN /\ Len(calls) < MaxCalls
             /\ ExecuteActionStep(modal.action, r,
                                  [vms EXCEPT ![r].reason = selectedReason], log, NoModal)
        ELSE CommitWith(eventsUpdated, vms, fetches, calls, log, NoModal)
  /\ UNCHANGED <<totalElements, topic, showTopic, paginationOptions, lifecycle>>
  /\ UNCHANGED <<authVars, jvVars>>

\* the modal is dismissed: the promise is rejected
ModalDismissed ==
  /\ modal.open
  /\ UNCHANGED isEventPageLoading
  /\ CommitWith(eventsUpdated, vms, fetches, calls,
                [Log("modalDismissed") EXCEPT !.eventData = modal.eventData], NoModal)
  /\ UNCHANGED <<totalElements, topic, showTopic, paginationOptions, lifecycle>>
  /\ UNCHANGED <<authVars, jvVars>>

\* boundProject(eventData, projectId, projectTitle, projectHandle), eventData
\* being an event of the displayed list
BoundProject(r, project) ==
  /\ lifecycle = "initialised"
  /\ Len(calls) < MaxCalls
  /\ r \in Range(eventsUpdated)
  /\ UNCHANGED isEventPageLoading
  /\ Commit(eventsUpdated, [vms EXCEPT ![r].isRunning = TRUE],
            fetches,
            Append(calls, [kind |-> "boundProject", eventData |-> r,
                           stage |-> "project", fetch |-> 0, project |-> project]),
            [Log("boundProject") EXCEPT !.call = Len(calls) + 1, !.eventData = r,
               !.requests = <<BoundProjectRequest(vms[r].id, project.projectId)>>])
  /\ UNCHANGED <<totalElements, topic, showTopic, paginationOptions, lifecycle>>
  /\ UNCHANGED <<authVars, jvVars>>

\* removeProject(eventData)
RemoveProject(r) ==
  /\ lifecycle = "initialised"
  /\ Len(calls) < MaxCalls
  /\ r \in Range(eventsUpdated)
  /\ UNCHANGED isEventPageLoading
  /\ Commit(eventsUpdated, [vms EXCEPT ![r].isRunning = TRUE],
            fetches,
            Append(calls, [kind |-> "removeProject", eventData |-> r,
                           stage |-> "project", fetch |-> 0, project |-> NoProject]),
            [Log("removeProject") EXCEPT !.call = Len(calls) + 1, !.eventData = r,
               !.requests = <<RemoveProjectRequest(vms[r].id)>>])
  /\ UNCHANGED <<totalElements, topic, showTopic, paginationOptions, lifecycle>>
  /\ UNCHANGED <<authVars, jvVars>>

\* the view-model after a succeeded boundProject or removeProject request
Bound(vm, project) ==
  [vm EXCEPT !.hasProject = TRUE, !.projectTitle = project.projectTitle,
             !.handle = project.handle, !.projectId = project.projectId]

\* removeProject's handler forgetting the title
Unbound_KeepTitle(vm) ==
  [vm EXCEPT !.hasProject = FALSE, !.handle = Null, !.projectId = Null]

Unbound(vm) ==
  [vm EXCEPT !.hasProject = FALSE, !.projectTitle = Null,
             !.handle = Null, !.projectId = Null]

\* the first completed response of the boundProject or removeProject request of call c
ProjectResponse_MutateOnFailure(c, hasSucceeded) ==
  /\ c \in 1..Len(calls)
  /\ calls[c].stage = "project"
  /\ UNCHANGED isEventPageLoading
  /\ LET r == calls[c].eventData
         done == IF calls[c].kind = "boundProject"
                 THEN Bound(vms[r], calls[c].project) ELSE Unbound(vms[r])
     IN Commit(eventsUpdated,
               [vms EXCEPT ![r] = [done EXCEPT !.isRunning = FALSE]],
               fetches,
               [calls EXCEPT ![c] = EndedCall(@.kind, "done")],
               [Log("projectResponse") EXCEPT !.call = c, !.eventData = r,
                  !.rd = Completed(hasSucceeded),
                  !.notified = <<IF hasSucceeded THEN "success" ELSE "error">>])
  /\ UNCHANGED <<totalElements, topic, showTopic, paginationOptions, lifecycle>>
  /\ UNCHANGED <<authVars, jvVars>>

ProjectResponse(c, hasSucceeded) ==
  /\ c \in 1..Len(calls)
  /\ calls[c].stage = "project"
  /\ UNCHANGED isEventPageLoading
  /\ LET r == calls[c].eventData
         done == IF ~hasSucceeded THEN vms[r]
                 ELSE IF calls[c].kind = "boundProject"
                      THEN Bound(vms[r], calls[c].project) ELSE Unbound(vms[r])
     IN Commit(eventsUpdated,
               [vms EXCEPT ![r] = [done EXCEPT !.isRunning = FALSE]],
               fetches,
               [calls EXCEPT ![c] = EndedCall(@.kind, "done")],
               [Log("projectResponse") EXCEPT !.call = c, !.eventData = r,
                  !.rd = Completed(hasSucceeded),
                  !.notified = <<IF hasSucceeded THEN "success" ELSE "error">>])
  /\ UNCHANGED <<totalElements, topic, showTopic, paginationOptions, lifecycle>>
  /\ UNCHANGED <<authVars, jvVars>>

\* ngOnDestroy: the subscriptions kept in subs, those of the calls, are unsubscribed
NgOnDestroy ==
  /\ lifecycle = "initialised"
  /\ lifecycle' = "destroyed"
  /\ UNCHANGED isEventPageLoading
  /\ Commit(eventsUpdated, vms,
            [f \in 1..Len(fetches) |->
               IF fetches[f].owner # 0 /\ fetches[f].stage \in {"page", "fanout"}
               THEN EndedFetch(fetches[f].owner, "unsubscribed") ELSE fetches[f]],
            [c \in 1..Len(calls) |->
               IF calls[c].stage \in {"patch", "refetch", "project"}
               THEN EndedCall(calls[c].kind, "unsubscribed") ELSE calls[c]],
            Log("ngOnDestroy"))
  /\ UNCHANGED <<totalElements, topic, showTopic, paginationOptions>>
  /\ UNCHANGED <<authVars, jvVars>>

\* the component's first page alone: ngOnInit, its pipeline, pagination changes,
\* every page the REST service may answer with, and the teardown
FetchNext ==
  \/ \E topicId \in TopicIds : NgOnInit(topicId)
  \/ \E options \in 1..MaxOptions : PaginationChange(options)
  \/ \E f \in FetchIds, rd \in PageResponses : PageResponse(f, rd)
  \/ \E f \in FetchIds, i \in 1..MaxPage, which \in {"related", "target"} :
       SubResourceResolved(f, i, which)
  \/ NgOnDestroy

\* the component and its route: ngOnInit, later route-parameter emissions,
\* the first page and the teardown
RouteNext ==
  \/ \E topicId \in TopicIds : NgOnInit(topicId)
  \/ \E topicId \in TopicIds : ParamMapEmits(topicId)
  \/ \E f \in FetchIds, rd \in PageResponses : PageResponse(f, rd)
  \/ \E f \in FetchIds, i \in 1..MaxPage, which \in {"related", "target"} :
       SubResourceResolved(f, i, which)
  \/ NgOnDestroy

\* the page requests that succeed
SucceededPageResponses == { rd \in PageResponses : rd.hasSucceeded }

\* the first page with every request answered, and answered with success:
\* ngOnInit, its page and the sub-resources of its events
LoadNext ==
  \/ \E topicId \in TopicIds : NgOnInit(topicId)
  \/ \E f \in FetchIds, rd \in SucceededPageResponses : PageResponse(f, rd)
  \/ \E f \in FetchIds, i \in 1..MaxPage, which \in {"related", "target"} :
       SubResourceResolved(f, i, which)

\* the pages answered while actions run: the first events, as many as the total
ActionPages == { [i \in 1..n |-> i] : n \in 0..MaxPage }

ActionPageResponses ==
  { [hasSucceeded |-> FALSE, totalElements |-> 0, page |-> <<>>] } \cup
  { [hasSucceeded |-> TRUE, totalElements |-> Len(p), page |-> p] : p \in ActionPages }

\* the component with its event actions
QANext ==
  \/ NgOnInit(<<"E", "!", "P">>)
  \/ \E f \in FetchIds, rd \in ActionPageResponses : PageResponse(f, rd)
  \/ \E f \in FetchIds, i \in 1..MaxPage, which \in {"related", "target"} :
       SubResourceResolved(f, i, which)
  \/ \E action \in Actions, r \in Refs : ExecuteAction(action, r)
  \/ \E c \in 1..MaxCalls, hasSucceeded \in BOOLEAN : PatchResponse(c, hasSucceeded)
  \/ NgOnDestroy

\* executeAction on an event of the list that no call is running on: calls in
\* flight at the same time are calls on different events
ExecuteActionOnIdle(action, r) ==
  /\ r \in Range(eventsUpdated)
  /\ ~vms[r].isRunning
  /\ ExecuteAction(action, r)

\* the component with actions running on different events at the same time
ConcurrentNext ==
  \/ NgOnInit(<<"E", "!", "P">>)
  \/ \E f \in FetchIds, rd \in ActionPageResponses : PageResponse(f, rd)
  \/ \E f \in FetchIds, i \in 1..MaxPage, which \in {"related", "target"} :
       SubResourceResolved(f, i, which)
  \/ \E action \in Actions, r \in Refs : ExecuteActionOnIdle(action, r)
  \/ \E c \in 1..MaxCalls, hasSucceeded \in BOOLEAN : PatchResponse(c, hasSucceeded)
  \/ NgOnDestroy

\* the results a modal is closed with
ModalResults == {"do", "cancel"}

\* the component with the actions chosen through modalChoice
ModalNext ==
  \/ NgOnInit(<<"E", "!", "P">>)
  \/ \E f \in FetchIds, rd \in ActionPageResponses : PageResponse(f, rd)
  \/ \E f \in FetchIds, i \in 1..MaxPage, which \in {"related", "target"} :
       SubResourceResolved(f, i, which)
  \/ \E action \in Actions, r \in Refs : ModalChoice(action, r)
  \/ \E result \in ModalResults, selectedReason \in Reasons :
       ModalClosed(result, selectedReason)
  \/ ModalDismissed
  \/ \E c \in 1..MaxCalls, hasSucceeded \in BOOLEAN : PatchResponse(c, hasSucceeded)
  \/ NgOnDestroy

\* the component with the binding and unbinding of projects
ProjectNext ==
  \/ NgOnInit(<<"E", "!", "P">>)
  \/ \E f \in FetchIds, rd \in ActionPageResponses : PageResponse(f, rd)
  \/ \E f \in FetchIds, i \in 1..MaxPage, which \in {"related", "target"} :
       SubResourceResolved(f, i, which)
  \/ \E r \in Refs, project \in Projects : BoundProject(r, project)
  \/ \E r \in Refs : RemoveProject(r)
  \/ \E c \in 1..MaxCalls, hasSucceeded \in BOOLEAN : ProjectResponse(c, hasSucceeded)
  \/ \E r \in Refs : ExecuteAction("ACCEPTED", r)
  \/ \E c \in 1..MaxCalls, hasSucceeded \in BOOLEAN : PatchResponse(c, hasSucceeded)
  \/ NgOnDestroy

SpecAuth == Init /\ [][AuthNext /\ UNCHANGED <<qaVars, jvVars>>]_vars

SpecSession == Init /\ [][SessionNext /\ UNCHANGED <<qaVars, jvVars>>]_vars

SpecFetch == Init /\ [][FetchNext]_vars

SpecRoute == Init /\ [][RouteNext]_vars

\* every request issued is answered: a step that can be taken is taken
SpecLoad == Init /\ [][LoadNext]_vars /\ WF_vars(LoadNext)

SpecJv == Init /\ [][JvNext]_vars

SpecQA == Init /\ [][QANext]_vars

SpecConcurrent == Init /\ [][ConcurrentNext]_vars

SpecModal == Init /\ [][ModalNext]_vars

SpecProject == Init /\ [][ProjectNext]_vars

----------------------------------------------------------------------------
(* AuthService: properties *)

\* the token in cookie storage is an object with a non-empty accessToken
StoredAccessTokenValid ==
  /\ storage.type = "object"
  /\ "accessToken" \in storage.keys
  /\ storage.accessToken \notin {"", Undefined}

ExpectedAuthHeader ==
  IF authenticated /\ StoredAccessTokenValid
  THEN "Bearer " \o storage.accessToken ELSE ""

\* C1: in every state getAuthHeader() returns 'Bearer ' followed by the stored
\* accessToken if and only if the authenticated flag is true and the stored
\* token has a non-empty accessToken; in every other state it returns ''.
C1_AuthHeader ==
  /\ getAuthHeader = ExpectedAuthHeader
  /\ (getAuthHeader # "") <=> (authenticated /\ StoredAccessTokenValid)
  /\ op.name = "getAuthHeader" => header = ExpectedAuthHeader

C1_Witness ==
  /\ op.name = "getAuthHeader"
  /\ authenticated
  /\ header = "Bearer tokA"

\* C2: in every reachable state the authenticated flag is true only if the
\* cookie storage holds a non-empty token with a non-empty accessToken.
C2_AuthenticatedOnlyWithToken == authenticated => StoredAccessTokenValid

\* C3: after a route-state change to a URL other than '/login', made while a
\* non-empty redirect URL different from the new URL was stored, the stored
\* redirect URL is empty.
C3_RouteChangeClearsRedirect ==
  ( /\ op.name = "routeChange"
    /\ op.url \in Urls \ {LOGIN_ROUTE}
    /\ isNotEmptyString(op.pre)
    /\ op.pre # op.url )
  => redirectUrl = ""

C3_Witness ==
  /\ op.name = "routeChange"
  /\ op.url = "/home"
  /\ op.pre = "/"
  /\ dispatched = <<"">>
  /\ redirectUrl = ""

\* what redirectToPreviousUrl() has done, given the redirect URL it found
RedirectedFrom(pre) ==
  IF isNotEmptyString(pre)
  THEN /\ navigated = <<pre>>
       /\ dispatched = <<Undefined>>
  ELSE /\ navigated = <<"/">>
       /\ dispatched = <<>>
       /\ redirectUrl = pre

\* C4: redirectToPreviousUrl() navigates to the stored redirect URL and clears
\* it when it is non-empty, and navigates to '/' without dispatching when it
\* is empty; the stored redirect URL is empty afterwards, and a second call
\* right after the first navigates to '/'.
C4_RedirectToPreviousUrl ==
  /\ [](op.name = "redirectToPreviousUrl"
          => RedirectedFrom(op.pre) /\ ~isNotEmptyString(redirectUrl))
  /\ [][(op.name = "redirectToPreviousUrl" /\ op'.name = "redirectToPreviousUrl")
          => (navigated' = <<"/">> /\ dispatched' = <<>>)]_vars

C4_Witness ==
  /\ op.name = "redirectToPreviousUrl"
  /\ op.pre = "/home"
  /\ navigated = <<"/home">>
  /\ redirectUrl = Undefined

\* C5 as stated: checkAuthenticationToken() succeeds if and only if a token is
\* present in storage and is non-empty.
C5_SucceedsIffStoredNonEmpty ==
  checkResult.called => (checkResult.ok <=> isNotEmpty(storage))

\* C5, amended: checkAuthenticationToken() succeeds, yielding the stored
\* token, if and only if the stored token is non-empty and has a non-empty
\* accessToken; in every other case it fails without a token value; it never
\* changes the stored token or the authenticated flag.
C5_CheckAuthenticationToken ==
  /\ [](checkResult.called =>
          /\ checkResult.ok <=> StoredAccessTokenValid
          /\ checkResult.ok => checkResult.token = storage
          /\ ~checkResult.ok => checkResult.token = JsUndefined)
  /\ [][op'.name = "checkAuthenticationToken"
          => (storage' = storage /\ authenticated' = authenticated)]_vars

C5_Witness ==
  /\ checkResult.called
  /\ checkResult.ok
  /\ checkResult.token = JsObject({"accessToken", "expires"}, "tokA")

\* a stored token that is non-empty and has no valid accessToken: the check fails
C5_FailsWitness ==
  /\ checkResult.called
  /\ ~checkResult.ok
  /\ isNotEmpty(storage)

\* what an operation leaves alone when it is none of the session's business
SessionUntouched ==
  /\ storage' = storage
  /\ authenticated' = authenticated
  /\ storeAuthenticated' = storeAuthenticated
  /\ redirectUrl' = redirectUrl

\* C15: authenticate(user, password) issues exactly one login request; it
\* yields the backend's status object if and only if the status reports
\* authenticated = true and fails with 'Invalid email or password' otherwise;
\* it stores no token and changes neither the authenticated flag nor the
\* redirect URL.
C15_Authenticate ==
  /\ [][op'.name = "authenticate" =>
          /\ nRequests' = nRequests + 1
          /\ login = [NoCall EXCEPT !.status = login.status, !.outcome = login.outcome]
          /\ login' = PendingCall
          /\ logout' = logout
          /\ SessionUntouched]_vars
  /\ [][op'.name = "authenticateResponse" =>
          /\ login = PendingCall
          /\ login'.state = "idle"
          /\ login'.status \in {Status(TRUE), Status(FALSE)}
          /\ login'.outcome = "status" <=> login'.status = Status(TRUE)
          /\ login'.outcome # "status" => login'.outcome = "Invalid email or password"
          /\ nRequests' = nRequests
          /\ logout' = logout
          /\ SessionUntouched]_vars

\* a login succeeds while no token is stored
C15_Witness ==
  /\ op.name = "authenticateResponse"
  /\ login.status = "authenticated"
  /\ login.outcome = "status"
  /\ storage = JsUndefined
  /\ ~authenticated

\* a login is refused
C15_RefusedWitness ==
  /\ op.name = "authenticateResponse"
  /\ login.status = "not authenticated"
  /\ login.outcome = "Invalid email or password"

\* C16: logout() issues exactly one logout request; it yields true if and only
\* if the backend status reports authenticated = false, and fails with an
\* error when the backend still reports the session as authenticated.
C16_Logout ==
  /\ [][op'.name = "logout" =>
          /\ nRequests' = nRequests + 1
          /\ logout' = PendingCall
          /\ login' = login]_vars
  /\ [][op'.name = "logoutResponse" =>
          /\ logout = PendingCall
          /\ logout'.state = "idle"
          /\ logout'.status \in {Status(TRUE), Status(FALSE)}
          /\ logout'.outcome = "true" <=> logout'.status = Status(FALSE)
          /\ logout'.outcome # "true" => logout'.outcome = "Invalid email or password"
          /\ nRequests' = nRequests
          /\ login' = login]_vars

\* a logout succeeds
C16_Witness ==
  /\ op.name = "logoutResponse"
  /\ logout.status = "not authenticated"
  /\ logout.outcome = "true"

\* a logout fails: the backend still reports the session
C16_FailsWitness ==
  /\ op.name = "logoutResponse"
  /\ logout.status = "authenticated"
  /\ logout.outcome = "Invalid email or password"

C18_FlagProjectsStore == authenticated = storeAuthenticated

\* create() has set the flag while the store still says false
C18_FlagAhead ==
  /\ op.name = "create"
  /\ authenticated
  /\ ~storeAuthenticated

----------------------------------------------------------------------------
(* QualityAssuranceEventsComponent: properties *)

\* the pipelines an executeAction call c has started
FetchesOf(c) == { f \in 1..Len(fetches) : fetches[f].owner = c }

\* the last step handled the response to the patch request of a call
PatchAnswered(hasSucceeded) ==
  /\ qlog.op = "patchResponse"
  /\ qlog.rd.hasSucceeded = hasSucceeded

\* the last step delivered the list of a re-fetch to the subscriber of a call
RefetchDelivered ==
  /\ qlog.op \in {"pageResponse", "subResourceResolved"}
  /\ qlog.call # 0
  /\ qlog.emitted # <<>>

C7_PatchFails ==
  /\ [](PatchAnswered(FALSE) =>
          /\ qlog.requests = <<>>
          /\ qlog.fetch = 0
          /\ FetchesOf(qlog.call) = {}
          /\ qlog.emitted = <<eventsUpdated>>
          /\ qlog.notified = <<"error">>
          /\ calls[qlog.call].stage = "done"
          /\ ~vms[qlog.eventData].isRunning)
  /\ [][(qlog'.op = "patchResponse" /\ ~qlog'.rd.hasSucceeded)
          => (eventsUpdated' = eventsUpdated /\ fetches' = fetches)]_vars

C7_Witness ==
  /\ PatchAnswered(FALSE)
  /\ Len(eventsUpdated) = 2
  /\ qlog.eventData \in Range(eventsUpdated)
  /\ qlog.notified = <<"error">>

\* the last step handled a successful page response with no elements
ZeroElements ==
  /\ qlog.op = "pageResponse"
  /\ qlog.rd.hasSucceeded
  /\ qlog.rd.totalElements = 0

\* C8: when a page fetch succeeds with totalElements equal to 0, the fetch
\* yields the empty list, eventsUpdated$ emits [], and no related or target
\* resolution is started for that fetch.
C8_ZeroElements ==
  ZeroElements =>
    /\ qlog.emitted = << <<>> >>
    /\ eventsUpdated = <<>>
    /\ totalElements = 0
    /\ qlog.subscribed = 0
    /\ fetches[qlog.fetch].stage = "delivered"
    /\ fetches[qlog.fetch].related = <<>>
    /\ fetches[qlog.fetch].target = <<>>

C8_Witness ==
  /\ ZeroElements
  /\ qlog.rd.page # <<>>
  /\ eventsUpdated = <<>>
  /\ ~isEventPageLoading

\* the related reference of an event resolved successfully with a non-empty id
RelatedHasId(e) ==
  /\ RelatedRD(e).hasSucceeded
  /\ ~RelatedRD(e).payload.isNull
  /\ RelatedRD(e).payload.id \notin {"", Undefined, Null}

\* the view-model is the one fetchEvents has to build for the event e
FreshlyBuilt(vm, e) ==
  /\ vm.event = e
  /\ vm.hasProject <=> RelatedHasId(e)
  /\ vm.hasProject =>
       /\ vm.projectTitle = MessageTitle(e)
       /\ vm.projectId = RelatedRD(e).payload.id
       /\ vm.handle = RelatedRD(e).payload.handle
  /\ ~vm.hasProject =>
       /\ vm.projectTitle = Null
       /\ vm.projectId = Null
       /\ vm.handle = Null
  /\ ~vm.isRunning
  /\ vm.reason = Null

\* C9: the view-model fetchEvents builds for an event of the page has
\* hasProject = true if and only if the event's related reference resolved
\* successfully with a non-empty id; then projectTitle is the event's message
\* title and projectId and handle those of the related item; otherwise the
\* three are null; isRunning is false and reason null.
C9_ViewModel ==
  /\ \A f \in 1..Len(fetches) : \A i \in 1..Len(fetches[f].acc) :
       LET r == fetches[f].acc[i]
       IN FreshlyBuilt(vms[r], fetches[f].page[r[2]])
  /\ \A r \in Range(eventsUpdated) : FreshlyBuilt(vms[r], vms[r].event)

C9_Witness ==
  /\ Len(eventsUpdated) = 2
  /\ vms[eventsUpdated[1]].hasProject
  /\ vms[eventsUpdated[1]].projectTitle = "project-title-1"
  /\ vms[eventsUpdated[1]].projectId = "project-1"
  /\ ~vms[eventsUpdated[2]].hasProject
  /\ vms[eventsUpdated[2]].event = 3

\* the sub-resources of the pipeline f that have not completed resolving
Pending(f) ==
  { <<i, "related">> : i \in { j \in 1..Len(fetches[f].page) : ~fetches[f].related[j] } }
  \cup
  { <<i, "target">> : i \in { j \in 1..Len(fetches[f].page) : ~fetches[f].target[j] } }

\* C10: fetchEvents on a non-empty page emits one list, only once the related
\* and the target of every event of the page have completed resolving, with
\* exactly one view-model per event of the page; no partial list is put on
\* eventsUpdated$, and while a sub-resource is pending no list is emitted.
C10_FanIn ==
  /\ [](\A f \in 1..Len(fetches) :
          fetches[f].stage = "fanout" =>
            /\ Pending(f) # {}
            /\ \A r \in Range(eventsUpdated) : r[1] # f)
  /\ [][\A f \in 1..Len(fetches) :
          /\ ( /\ fetches[f].stage = "fanout"
               /\ \/ (qlog'.fetch = f /\ qlog'.emitted # <<>>)
                  \/ fetches'[f].stage = "delivered" )
             => /\ Cardinality(Pending(f)) = 1
                /\ qlog'.op = "subResourceResolved"
                /\ qlog'.fetch = f
                /\ qlog'.emitted = <<eventsUpdated'>>
                /\ Len(eventsUpdated') = Len(fetches[f].page)
                /\ \A i \in 1..Len(fetches[f].page) :
                     \E k \in 1..Len(eventsUpdated') :
                       /\ eventsUpdated'[k] = <<f, i>>
                       /\ vms'[<<f, i>>].event = fetches[f].page[i]
                /\ fetches'[f].stage = "delivered"
          /\ fetches[f].stage = "delivered"
             => ~(qlog'.fetch = f /\ qlog'.emitted # <<>>)]_vars

C10_Witness ==
  /\ qlog.op = "subResourceResolved"
  /\ qlog.emitted = <<eventsUpdated>>
  /\ Len(eventsUpdated) = 2
  /\ fetches[qlog.fetch].stage = "delivered"

\* the last step issued exactly the patch request of a new executeAction call
\* on the view-model r
PatchIssuedFor(r) ==
  /\ Len(qlog.requests) = 1
  /\ qlog.requests[1].type = "patchEvent"
  /\ qlog.requests[1].event = vms[r].event
  /\ qlog.requests[1].reason = vms[r].reason
  /\ qlog.call = Len(calls)
  /\ calls[qlog.call].eventData = r
  /\ calls[qlog.call].stage = "patch"
  /\ vms[r].isRunning

\* C11: modalChoice executes the action directly, opening no modal, when
\* eventData.hasProject is true, and opens the reason modal, issuing nothing,
\* when it is false; the patch request is then issued only when the modal is
\* closed with 'do', with eventData.reason set to the reason selected; when
\* the modal is closed with another result or dismissed, no request is issued
\* and the list, its view-models and the calls stay as they were.
C11_ModalChoice ==
  /\ [](qlog.op = "modalChoice" =>
          IF vms[qlog.eventData].hasProject
          THEN ~modal.open /\ PatchIssuedFor(qlog.eventData)
          ELSE /\ modal.open
               /\ modal.eventData = qlog.eventData
               /\ qlog.requests = <<>>
               /\ qlog.call = 0)
  /\ [](qlog.op \in {"modalClosed", "modalDismissed"} =>
          /\ ~modal.open
          /\ IF qlog.result = "do"
             THEN /\ PatchIssuedFor(qlog.eventData)
                  /\ vms[qlog.eventData].reason = qlog.selectedReason
                  /\ qlog.requests[1].reason = qlog.selectedReason
             ELSE qlog.requests = <<>> /\ qlog.call = 0)
  /\ [][qlog'.op \in {"modalChoice", "modalClosed", "modalDismissed"} =>
          /\ eventsUpdated' = eventsUpdated
          /\ qlog'.emitted = <<>>
          /\ qlog'.op = "modalChoice" =>
               /\ ~modal.open
               /\ vms[qlog'.eventData].hasProject => calls' # calls
               /\ ~vms[qlog'.eventData].hasProject => calls' = calls
          /\ qlog'.op # "modalChoice" =>
               /\ modal.open
               /\ qlog'.eventData = modal.eventData
               /\ qlog'.result = "do" =>
                    qlog'.requests =
                      <<PatchRequest(modal.action, vms[modal.eventData].event,
                                     qlog'.selectedReason)>>
               /\ qlog'.result # "do" =>
                    /\ calls' = calls
                    /\ fetches' = fetches
                    /\ \A r \in Range(eventsUpdated) : vms'[r] = vms[r]]_vars

C11_Witness ==
  /\ qlog.op = "modalClosed"
  /\ qlog.result = "do"
  /\ qlog.selectedReason = "reason-1"
  /\ qlog.requests = <<PatchRequest("REJECTED", 2, "reason-1")>>
  /\ ~vms[qlog.eventData].hasProject

\* modalChoice on an event with a project: the action is executed at once
C11_DirectWitness ==
  /\ qlog.op = "modalChoice"
  /\ vms[qlog.eventData].hasProject
  /\ ~modal.open
  /\ Len(qlog.requests) = 1

\* the modal is closed without 'do' while the list is shown
C11_CancelWitness ==
  /\ qlog.op = "modalClosed"
  /\ qlog.result = "cancel"
  /\ Len(eventsUpdated) = 2
  /\ calls = <<>>

\* C12: boundProject and removeProject issue their one request and nothing
\* else; the response changes only the view-model the call was made on: a
\* succeeded boundProject sets hasProject with projectId, projectTitle and
\* handle as given, a succeeded removeProject clears the four, a failed
\* response leaves the four alone and notifies an error; isRunning ends
\* false, no page is fetched, eventsUpdated$ does not emit and no other
\* view-model changes.
C12_ProjectResponse ==
  /\ [][qlog'.op \in {"boundProject", "removeProject"} =>
          /\ eventsUpdated' = eventsUpdated
          /\ fetches' = fetches
          /\ qlog'.emitted = <<>>
          /\ qlog'.notified = <<>>
          /\ Len(qlog'.requests) = 1
          /\ qlog'.requests[1].type = qlog'.op
          /\ qlog'.requests[1].id = vms[qlog'.eventData].id
          /\ vms'[qlog'.eventData] = [vms[qlog'.eventData] EXCEPT !.isRunning = TRUE]
          /\ \A o \in (Roots(eventsUpdated', fetches', calls') \cap Refs) \ {qlog'.eventData} :
               vms'[o] = vms[o]]_vars
  /\ [][qlog'.op = "projectResponse" =>
          LET c == qlog'.call
              r == calls[c].eventData
              project == calls[c].project
          IN /\ qlog'.eventData = r
             /\ eventsUpdated' = eventsUpdated
             /\ fetches' = fetches
             /\ qlog'.emitted = <<>>
             /\ qlog'.requests = <<>>
             /\ ~vms'[r].isRunning
             /\ \A o \in (Roots(eventsUpdated', fetches', calls') \cap Refs) \ {r} :
                  vms'[o] = vms[o]
             /\ IF qlog'.rd.hasSucceeded
                THEN /\ qlog'.notified = <<"success">>
                     /\ calls[c].kind = "boundProject" =>
                          vms'[r] = [vms[r] EXCEPT !.hasProject = TRUE,
                                       !.projectId = project.projectId,
                                       !.projectTitle = project.projectTitle,
                                       !.handle = project.handle,
                                       !.isRunning = FALSE]
                     /\ calls[c].kind = "removeProject" =>
                          vms'[r] = [vms[r] EXCEPT !.hasProject = FALSE,
                                       !.projectId = Null,
                                       !.projectTitle = Null,
                                       !.handle = Null,
                                       !.isRunning = FALSE]
                ELSE /\ qlog'.notified = <<"error">>
                     /\ vms'[r] = [vms[r] EXCEPT !.isRunning = FALSE]]_vars

\* a project is bound to the second event of a page of two
C12_Witness ==
  /\ qlog.op = "projectResponse"
  /\ qlog.rd.hasSucceeded
  /\ Len(eventsUpdated) = 2
  /\ qlog.eventData = eventsUpdated[2]
  /\ vms[qlog.eventData].projectId = "project-A"
  /\ vms[qlog.eventData].hasProject
  /\ vms[eventsUpdated[1]].projectId = "project-1"

\* the project of the first event is removed
C12_RemovedWitness ==
  /\ qlog.op = "projectResponse"
  /\ qlog.rd.hasSucceeded
  /\ vms[qlog.eventData].event = 1
  /\ ~vms[qlog.eventData].hasProject
  /\ vms[qlog.eventData].projectId = Null

\* a removeProject request fails: the project stays
C12_FailedWitness ==
  /\ qlog.op = "projectResponse"
  /\ ~qlog.rd.hasSucceeded
  /\ qlog.notified = <<"error">>
  /\ vms[qlog.eventData].event = 1
  /\ vms[qlog.eventData].hasProject

\* C13: when the page request of a getQualityAssuranceEvents pipeline
\* completes with a failed response, the pipeline ends with an error, emits no
\* list and starts no sub-resource resolution, and eventsUpdated$ and
\* totalElements$ hold the values they held before.
C13_PageFetchFails ==
  [][(qlog'.op = "pageResponse" /\ ~qlog'.rd.hasSucceeded) =>
       /\ fetches[qlog'.fetch].stage = "page"
       /\ fetches'[qlog'.fetch].stage = "error"
       /\ fetches'[qlog'.fetch].related = <<>>
       /\ fetches'[qlog'.fetch].target = <<>>
       /\ qlog'.emitted = <<>>
       /\ qlog'.subscribed = 0
       /\ qlog'.cleared = 0
       /\ eventsUpdated' = eventsUpdated
       /\ totalElements' = totalElements
       /\ isEventPageLoading' = isEventPageLoading
       /\ \A r \in Range(eventsUpdated) : vms'[r] = vms[r]]_vars

\* the re-fetch after a succeeded patch fails while a page of two is shown
C13_Witness ==
  /\ qlog.op = "pageResponse"
  /\ ~qlog.rd.hasSucceeded
  /\ fetches[qlog.fetch].stage = "error"
  /\ fetches[qlog.fetch].owner # 0
  /\ Len(eventsUpdated) = 2
  /\ totalElements = 2

\* the first page fetch fails: the page stays loading
C13_FirstFetchWitness ==
  /\ qlog.op = "pageResponse"
  /\ ~qlog.rd.hasSucceeded
  /\ fetches[qlog.fetch].owner = 0
  /\ isEventPageLoading
  /\ totalElements = NullNumber

\* C14: after ngOnDestroy no late response changes eventsUpdated$,
\* isEventPageLoading or a view-model of the list, and none fires a
\* notification: every in-flight request of the component, the page fetch of
\* ngOnInit included, has been unsubscribed.
C14_TeardownUnsubscribesAll ==
  [][lifecycle = "destroyed" =>
       /\ eventsUpdated' = eventsUpdated
       /\ isEventPageLoading' = isEventPageLoading
       /\ qlog'.emitted = <<>>
       /\ qlog'.notified = <<>>
       /\ \A r \in Range(eventsUpdated) : vms'[r] = vms[r]
    ]_<<eventsUpdated, isEventPageLoading, qlog>>

\* the page fetch of ngOnInit delivers its list after ngOnDestroy
C14_LateDelivery ==
  /\ lifecycle = "destroyed"
  /\ qlog.op \in {"pageResponse", "subResourceResolved"}
  /\ qlog.emitted = <<eventsUpdated>>
  /\ fetches[qlog.fetch].owner = 0

\* the page fetch ngOnInit started has not ended
FirstFetchRunning ==
  /\ fetches # <<>>
  /\ fetches[1].owner = 0
  /\ fetches[1].stage \in {"page", "fanout"}

\* C19: isEventPageLoading is true from ngOnInit until the list of the first
\* page is delivered and becomes false in the step that puts that list on
\* eventsUpdated$; nothing sets it back to true; and when the page request and
\* the sub-resources are answered with success, the page is eventually loaded.
C19_PageStateMachine ==
  /\ [](FirstFetchRunning => isEventPageLoading)
  /\ [][isEventPageLoading' # isEventPageLoading =>
          \/ qlog'.op = "ngOnInit" /\ isEventPageLoading'
          \/ /\ ~isEventPageLoading'
             /\ qlog'.fetch = 1
             /\ qlog'.emitted = <<eventsUpdated'>>]_<<isEventPageLoading, qlog>>
  /\ (lifecycle = "initialised" ~> ~isEventPageLoading)

\* the page request succeeded with elements in total and none on the page: the
\* pipeline has ended with an error and the page is still loading
C19_StuckLoading ==
  /\ qlog.op = "pageResponse"
  /\ qlog.rd.hasSucceeded
  /\ qlog.rd.totalElements > 0
  /\ qlog.rd.page = <<>>
  /\ fetches[1].stage = "error"
  /\ isEventPageLoading

\* C21: the list fetchEvents emits holds the view-models in the order of the
\* events of the fetched page, in whatever order the sub-resources resolve:
\* the k-th view-model of the list is the one of the k-th event of the page.
C21_OrderPreserved ==
  \A k \in 1..Len(eventsUpdated) : eventsUpdated[k][2] = k

\* the second event of the page resolved first and stands first in the list
C21_Swapped ==
  /\ qlog.op = "subResourceResolved"
  /\ Len(eventsUpdated) = 2
  /\ eventsUpdated[1][2] = 2
  /\ eventsUpdated[2][2] = 1

\* every request the component issued has been answered
AllAnswered ==
  /\ \A c \in 1..Len(calls) : calls[c].stage \notin {"patch", "refetch", "project"}
  /\ \A f \in 1..Len(fetches) : fetches[f].stage \notin {"page", "fanout"}

\* C22: once the requests of the executeAction calls have been answered,
\* whatever their outcome, no view-model is left with isRunning = true.
C22_RunningCleared ==
  (lifecycle = "initialised" /\ AllAnswered) =>
    \A r \in Refs : vms[r].event # 0 => ~vms[r].isRunning

\* the patch succeeded, the re-fetch failed: the event of the list stays running
C22_StuckRunning ==
  /\ lifecycle = "initialised"
  /\ AllAnswered
  /\ qlog.op = "pageResponse"
  /\ ~qlog.rd.hasSucceeded
  /\ qlog.call # 0
  /\ calls[qlog.call].stage = "error"
  /\ \E r \in Range(eventsUpdated) : vms[r].isRunning

\* the pipelines started by executeAction calls that have delivered their list
DeliveredRefetches ==
  { f \in 1..Len(fetches) : fetches[f].owner # 0 /\ fetches[f].stage = "delivered" }

\* C23: with two executeAction calls in flight, whatever the interleaving of
\* their responses, eventsUpdated$ ends holding the list of the re-fetch
\* issued last: the list of a re-fetch is never put on eventsUpdated$ after
\* the list of a re-fetch issued later has been.
C23_LatestRefetchWins ==
  [][\A f \in 1..Len(fetches) :
       ( /\ fetches[f].owner # 0
         /\ fetches[f].stage \in {"page", "fanout"}
         /\ fetches'[f].stage = "delivered" )
       => \A g \in DeliveredRefetches : g < f]_<<fetches, eventsUpdated, qlog>>

\* the re-fetch issued first has delivered after the one issued second
C23_OlderDeliveredLast ==
  /\ AllAnswered
  /\ Len(calls) = 2
  /\ Len(eventsUpdated) = 2
  /\ DeliveredRefetches = {2, 3}
  /\ qlog.fetch = 2
  /\ qlog.emitted = <<eventsUpdated>>

\* the pipelines that hand a list to their subscriber in the step taken
Delivering ==
  { f \in 1..Len(fetches) :
      fetches[f].stage \in {"page", "fanout"} /\ fetches'[f].stage = "delivered" }

\* C25: a getQualityAssuranceEvents() pipeline delivers at most one list: once
\* it has delivered or failed it stays as it is, later pagination changes
\* included; while it waits for its page, its page request is the one for
\* the latest pagination options, so the page answered is theirs;
\* clearFindByTopicRequests is called once in the step that delivers a list
\* and in no other step, the step in which a fetch fails included.
C25_OneListPerCall ==
  /\ [](\A f \in 1..Len(fetches) :
          fetches[f].stage = "page" => fetches[f].options = paginationOptions)
  /\ [][/\ \A f \in 1..Len(fetches) :
            fetches[f].stage \in {"delivered", "error"}
              => /\ fetches'[f] = fetches[f]
                 /\ ~(qlog'.fetch = f /\ qlog'.emitted # <<>>)
        /\ Cardinality(Delivering) <= 1
        /\ qlog'.cleared = Cardinality(Delivering)
        /\ \A f \in Delivering : /\ qlog'.fetch = f
                                  /\ qlog'.emitted = <<eventsUpdated'>>
        /\ (qlog'.op = "paginationChange" /\ Len(fetches) > 0
              /\ fetches[1].stage = "page")
             => /\ qlog'.requests = <<PageRequest(topic, paginationOptions')>>
                /\ fetches'[1].stage = "page"]_vars

\* a list delivered for the options the pagination was changed to while the
\* page request was pending
C25_Witness ==
  /\ Len(fetches) = 1
  /\ fetches[1].stage = "delivered"
  /\ paginationOptions = 2
  /\ qlog.cleared = 1
  /\ qlog.emitted = <<eventsUpdated>>
  /\ Len(eventsUpdated) = 2

\* the pending page request has just been replaced
C25_ReplacedWitness ==
  /\ qlog.op = "paginationChange"
  /\ Len(qlog.requests) = 1
  /\ fetches[1].stage = "page"
  /\ fetches[1].options = 2

\* the pagination options change after the list was delivered
C25_LateChangeWitness ==
  /\ qlog.op = "paginationChange"
  /\ qlog.requests = <<>>
  /\ qlog.cleared = 0
  /\ Len(fetches) = 1
  /\ fetches[1].stage = "delivered"
  /\ Len(eventsUpdated) = 1

\* the page request of a fetch has just failed
C25_FailedWitness ==
  /\ qlog.op = "pageResponse"
  /\ qlog.cleared = 0
  /\ fetches[qlog.fetch].stage = "error"

\* C26: in every reachable state, every event view-model with hasProject
\* false has projectTitle, projectId and handle null.
C26_NoProjectFields ==
  \A r \in Refs :
    (vms[r].event # 0 /\ ~vms[r].hasProject)
      => /\ vms[r].projectTitle = Null
         /\ vms[r].projectId = Null
         /\ vms[r].handle = Null

\* a project was bound to an event and then removed from it
C26_Witness ==
  /\ qlog.op = "projectResponse"
  /\ qlog.rd.hasSucceeded
  /\ Len(calls) = 2
  /\ calls[1].kind = "boundProject"
  /\ calls[1].stage = "done"
  /\ calls[2].kind = "removeProject"
  /\ qlog.call = 2
  /\ ~vms[qlog.eventData].hasProject
  /\ vms[qlog.eventData].projectTitle = Null

\* the pipelines of the call c after the step taken
FetchesOfNext(c) == { f \in 1..Len(fetches') : fetches'[f].owner = c }

\* C27: every executeAction call issues exactly one patch request, in the step
\* that starts it, and no step issues a patch request for a call already
\* started; notifications fire only in the step that handles the answer to a
\* call's patch, exactly one there, success for a succeeded answer and error
\* for a failed one, and a call's patch is answered once; a call starts at
\* most one page re-fetch, and only in the step that handles a succeeded answer.
C27_OnePatchOneNotification ==
  [][/\ Len(calls') > Len(calls)
          => /\ Len(calls') = Len(calls) + 1
             /\ qlog'.op = "executeAction"
             /\ qlog'.call = Len(calls')
             /\ Len(qlog'.requests) = 1
             /\ qlog'.requests[1].type = "patchEvent"
             /\ qlog'.notified = <<>>
     /\ (\E k \in 1..Len(qlog'.requests) : qlog'.requests[k].type = "patchEvent")
          => Len(calls') = Len(calls) + 1
     /\ qlog'.op = "patchResponse"
          => /\ calls[qlog'.call].stage = "patch"
             /\ qlog'.notified = <<IF qlog'.rd.hasSucceeded THEN "success" ELSE "error">>
     /\ qlog'.notified # <<>> => qlog'.op = "patchResponse"
     /\ \A c \in 1..Len(calls) :
          /\ calls[c].stage # "patch" => calls'[c].stage # "patch"
          /\ FetchesOfNext(c) # FetchesOf(c)
               => /\ FetchesOf(c) = {}
                  /\ Cardinality(FetchesOfNext(c)) = 1
                  /\ qlog'.op = "patchResponse"
                  /\ qlog'.call = c
                  /\ qlog'.rd.hasSucceeded
                  /\ qlog'.requests = <<PageRequest(topic, paginationOptions)>>]_vars

\* one call has re-fetched the page and the patch of a second has just failed
C27_Witness ==
  /\ Len(calls) = 2
  /\ qlog.op = "patchResponse"
  /\ qlog.call = 2
  /\ ~qlog.rd.hasSucceeded
  /\ qlog.notified = <<"error">>
  /\ FetchesOf(2) = {}
  /\ calls[1].stage = "done"
  /\ Cardinality(FetchesOf(1)) = 1

\* C28: ngOnInit sets topic to the route's topicId as it is and showTopic to
\* the topicId with every '!' replaced by '/', and issues the first page
\* request with the unmodified topic; a later route-parameter emission
\* changes neither topic nor showTopic and starts no fetch.
C28_Topic ==
  /\ [](lifecycle # "constructed" =>
          /\ Len(showTopic) = Len(topic)
          /\ \A i \in 1..Len(topic) :
               showTopic[i] = (IF topic[i] = "!" THEN "/" ELSE topic[i])
          /\ \A i \in 1..Len(showTopic) : showTopic[i] # "!")
  /\ [][qlog'.op = "ngOnInit"
         => /\ topic' = qlog'.param
            /\ qlog'.requests = <<PageRequest(qlog'.param, paginationOptions)>>
            /\ Len(fetches') = Len(fetches) + 1]_vars
  /\ [][qlog'.op = "paramMap"
         => /\ topic' = topic
            /\ showTopic' = showTopic
            /\ fetches' = fetches
            /\ eventsUpdated' = eventsUpdated
            /\ qlog'.requests = <<>>]_vars

\* initialised on a topic with three placeholders
C28_Witness ==
  /\ qlog.op = "ngOnInit"
  /\ qlog.param = <<"!", "A", "!", "!">>
  /\ topic = <<"!", "A", "!", "!">>
  /\ showTopic = <<"/", "A", "/", "/">>
  /\ Len(fetches) = 1

\* the route has emitted another topicId after the first page was delivered
C28_LaterParamWitness ==
  /\ qlog.op = "paramMap"
  /\ qlog.param = <<"E", "!", "P">>
  /\ topic = <<"!", "A", "!", "!">>
  /\ Len(fetches) = 1
  /\ fetches[1].stage = "delivered"

\* C24: the route-tracking subscription leaves the stored redirect URL alone
\* on a route change to '/login' and on a route change to the stored URL;
\* setRedirectUrl(value) stores value and nothing clears it before the next
\* route-state emission, whatever the current route is; so after the guard
\* has stored a URL and the route has changed to '/login',
\* redirectToPreviousUrl() navigates to the stored URL.
C24_RedirectKept ==
  /\ [][( /\ op'.name = "routeChange"
          /\ (op'.url = LOGIN_ROUTE \/ op'.url = redirectUrl) )
         => (redirectUrl' = redirectUrl /\ dispatched' = <<>>)]_vars
  /\ [][op'.name = "setRedirectUrl"
         => (redirectUrl' = op'.url /\ dispatched' = <<op'.url>>)]_vars
  /\ [][( /\ op.name = "setRedirectUrl"
          /\ isNotEmptyString(op.url)
          /\ op'.name = "routeChange"
          /\ op'.url = LOGIN_ROUTE )
         => (op'.pre = op.url /\ redirectUrl' = op.url)]_vars
  /\ [][( /\ op.name = "routeChange"
          /\ op.url = LOGIN_ROUTE
          /\ isNotEmptyString(op.pre)
          /\ op'.name = "redirectToPreviousUrl" )
         => navigated' = <<op.pre>>]_vars

\* the guard stored '/home' and the route has then changed to '/login'
C24_Witness ==
  /\ op.name = "routeChange"
  /\ op.url = LOGIN_ROUTE
  /\ op.pre = "/home"
  /\ routerState = LOGIN_ROUTE
  /\ redirectUrl = "/home"

\* a redirect URL other than the current route has been stored
C24_StoredWitness ==
  /\ op.name = "setRedirectUrl"
  /\ routerState = "/"
  /\ redirectUrl = "/home"
  /\ dispatched = <<"/home">>

\* a route change to the stored redirect URL
C24_SameUrlWitness ==
  /\ op.name = "routeChange"
  /\ op.url = "/home"
  /\ op.pre = "/home"
  /\ redirectUrl = "/home"

----------------------------------------------------------------------------
(* JournalVolumeSearchResultListElementComponent: properties *)

\* C20: once the component has been rendered, the thumbnail element is there
\* if and only if browseBy.showThumbnails of the configuration is true,
\* whatever metadata the item has; with true the component's showThumbnails
\* is true.
C20_Thumbnail ==
  fixture = "stable" =>
    /\ "ds-thumbnail" \in debugElement <=> appConfig[1].browseBy.showThumbnails
    /\ appConfig = <<environmentUseThumbs>> =>
         showThumbnails = <<TRUE>> /\ "ds-thumbnail" \in debugElement
    /\ appConfig = <<enviromentNoThumbs>> => "ds-thumbnail" \notin debugElement

\* thumbnails on, an item with metadata: the thumbnail is rendered
C20_Witness ==
  /\ fixture = "stable"
  /\ appConfig = <<environmentUseThumbs>>
  /\ object = <<mockItemWithMetadata>>
  /\ showThumbnails = <<TRUE>>
  /\ "ds-thumbnail" \in debugElement

\* thumbnails off, the same item: no thumbnail
C20_NoThumbsWitness ==
  /\ fixture = "stable"
  /\ appConfig = <<enviromentNoThumbs>>
  /\ object = <<mockItemWithMetadata>>
  /\ debugElement = {"span.item-list-journal-volumes",
                     "span.item-list-journal-volume-identifiers"}

\* thumbnails on, an item without journal metadata: the thumbnail alone
C20_BareItemWitness ==
  /\ fixture = "stable"
  /\ appConfig = <<environmentUseThumbs>>
  /\ object = <<mockItemWithoutMetadata>>
  /\ debugElement = {"ds-thumbnail"}

====
